---- MODULE Spec2Model ----
(***************************************************************************)
(* Stock screener: provider clients (Financial Modeling Prep, Alpha        *)
(* Vantage), the resolver lookupTicker, computeMetrics, the universe       *)
(* source fetchNasdaqList, the two scan engines (scanAllUndervalued,       *)
(* scanAndDisplayUndervalued) and the two click handlers of the page.      *)
(*                                                                         *)
(* JavaScript runs one job at a time: a click, or the arrival of a network *)
(* response, runs the code that waits for it up to the next network call.  *)
(* Each action below is one such job.  Awaits on already-settled promises  *)
(* only yield to microtasks, which no click or response can interleave.    *)
(***************************************************************************)
EXTENDS Integers, Sequences, FiniteSets, TLC

(***************************************************************************)
(* Bounds of the model.                                                    *)
(***************************************************************************)
\* longest universe listing
MaxListing == 3
\* longest list of tickers typed for a manual scan
MaxTickers == 2

(***************************************************************************)
(* JavaScript values.  A number is a rational <<n, d>> with d > 0, NaN is  *)
(* <<>> (also standing for undefined where only parseFloat or a truth test *)
(* reads the value), null is <<0>> and Infinity is <<1, 0>>.               *)
(***************************************************************************)
NaN == <<>>
Null == <<0>>
Num(n) == <<n, 1>>
\* typeof v === 'number' && !isNaN(v)
IsNumber(v) == Len(v) = 2
\* JavaScript truthiness of a number, NaN, undefined or null
Truthy(v) == IsNumber(v) /\ v[1] # 0
\* a / b for numbers a, b with b # 0
Divide(a, b) ==
    IF b[1] > 0 THEN <<a[1] * b[2], a[2] * b[1]>>
    ELSE <<-(a[1] * b[2]), -(a[2] * b[1])>>
\* a < b for numbers
Less(a, b) == a[1] * b[2] < b[1] * a[2]
\* x || y
OrElse(x, y) == IF Truthy(x) THEN x ELSE y
\* typeof x === 'number' && !isNaN(x) ? x : null
NumberOrNull(x) == IF IsNumber(x) THEN x ELSE Null

\* const discountRate = 0.08
discountRate == <<2, 25>>

(***************************************************************************)
(* Number.prototype.toFixed and the format helper of computeMetrics.  A    *)
(* formatted string is <<digits, m>>, the decimal m / 10^digits, and 'N/A' *)
(* is <<>>.                                                                *)
(***************************************************************************)
NA == <<>>
\* isFinite(v) for a number, NaN, undefined or null; Infinity is <<1, 0>>
isFinite(v) == Len(v) = 2 /\ v[2] # 0
Pow10(k) == IF k = 4 THEN 10000 ELSE IF k = 2 THEN 100 ELSE 1
\* nearest integer to n / d (d > 0), ties to the larger magnitude
RoundDiv(n, d) ==
    IF n >= 0 THEN (2 * n + d) \div (2 * d)
    ELSE -((2 * (-n) + d) \div (2 * d))
toFixed(v, digits) == <<digits, RoundDiv(v[1] * Pow10(digits), v[2])>>
\* (value, digits) => typeof value === 'number' && isFinite(value) ? value.toFixed(digits) : 'N/A'
format(value, digits) ==
    IF IsNumber(value) /\ isFinite(value) THEN toFixed(value, digits) ELSE NA
\* parseFloat of a formatted string
parseFloatFixed(s) == <<s[2], Pow10(s[1])>>

(***************************************************************************)
(* computeMetrics(data)                                                    *)
(***************************************************************************)
computeMetrics(data) ==
    LET price == NumberOrNull(data.price)
        eps == NumberOrNull(data.eps)
        bookValue == NumberOrNull(data.bookValue)
        enterpriseValue == NumberOrNull(data.enterpriseValue)
        ebitda == NumberOrNull(data.ebitda)
        evToEbitda ==
            IF IsNumber(data.evToEbitda) THEN data.evToEbitda
            ELSE IF Truthy(enterpriseValue) /\ Truthy(ebitda)
                 THEN Divide(enterpriseValue, ebitda) ELSE Null
        dividendPerShare == NumberOrNull(data.dividendPerShare)
        dividendYield ==
            IF IsNumber(data.dividendYield) THEN data.dividendYield
            ELSE IF Truthy(dividendPerShare) /\ Truthy(price)
                 THEN Divide(dividendPerShare, price) ELSE Null
        pe == IF Truthy(price) /\ Truthy(eps) THEN Divide(price, eps) ELSE Null
        pb == IF Truthy(price) /\ Truthy(bookValue) THEN Divide(price, bookValue) ELSE Null
        intrinsicDividend ==
            IF Truthy(dividendPerShare) THEN Divide(dividendPerShare, discountRate) ELSE Null
    IN  [price |-> format(price, 2),
         eps |-> format(eps, 2),
         pe |-> format(pe, 2),
         bookValue |-> format(bookValue, 2),
         pb |-> format(pb, 2),
         evEbitda |-> format(evToEbitda, 2),
         dividendPerShare |-> format(dividendPerShare, 2),
         dividendYield |-> format(dividendYield, 4),
         intrinsicDividend |-> format(intrinsicDividend, 2)]

(***************************************************************************)
(* Transport.  A network call ends in one outcome: a network fault, a      *)
(* non-success HTTP status, or a success with a body.  A body is a record  *)
(* with a kind; kind "text" is a body that is not JSON.                    *)
(***************************************************************************)
NoBody == [kind |-> "none"]
Fault == [net |-> "fault", body |-> NoBody]
HttpError == [net |-> "status", body |-> NoBody]
Ok(b) == [net |-> "ok", body |-> b]
Thrown == [kind |-> "thrown"]
\* fetchWithProxy: throws on a fault or a non-ok status, else JSON.parse(text),
\* falling back to the text itself
fetchWithProxy(outcome) == IF outcome.net = "ok" THEN outcome.body ELSE Thrown

\* Alpha Vantage OVERVIEW bodies
TextBody == [kind |-> "text"]
EmptyObject == [kind |-> "empty"]
NoteBody == [kind |-> "note"]
ErrorBody == [kind |-> "error"]
OverviewBody(eps, bookValue, ev, ebitda, evToEbitda, dps, dy) ==
    [kind |-> "overview", EPS |-> eps, BookValue |-> bookValue, EnterpriseValue |-> ev,
     EBITDA |-> ebitda, EVToEBITDA |-> evToEbitda, DividendPerShare |-> dps,
     DividendYield |-> dy]
\* Alpha Vantage GLOBAL_QUOTE bodies: no 'Global Quote' member, a quote without
\* '05. price', or a quote whose price string parses to v (NaN when not numeric)
NoQuoteBody == [kind |-> "noquote"]
NoPriceBody == [kind |-> "noprice"]
QuoteBody(v) == [kind |-> "quote", price |-> v]
\* Financial Modeling Prep bodies: quote array and key-metrics array
FmpQuoteBody(price, eps, lastDiv) ==
    [kind |-> "fmpquote", price |-> price, eps |-> eps, epsTTM |-> NaN,
     enterpriseValue |-> NaN, ebitda |-> NaN, lastDiv |-> lastDiv, dividendYield |-> NaN]
FmpMetricsBody(eps, bookValue, dps) ==
    [kind |-> "fmpmetrics", EarningsPerShareTTM |-> eps, bookValuePerShare |-> bookValue,
     bookValue |-> NaN, enterpriseValue |-> NaN, EBITDA |-> NaN,
     dividendPerShare |-> dps, dividendYield |-> NaN]
EmptyMetrics == FmpMetricsBody(NaN, NaN, NaN)

(***************************************************************************)
(* FundamentalData, and null for "no data".                                *)
(***************************************************************************)
NullData == [absent |-> TRUE]
\* !data
IsNull(data) == "absent" \in DOMAIN data
Fundamental(price, eps, bookValue, ev, ebitda, evToEbitda, dps, dy) ==
    [price |-> price, eps |-> eps, bookValue |-> bookValue, enterpriseValue |-> ev,
     ebitda |-> ebitda, evToEbitda |-> evToEbitda, dividendPerShare |-> dps,
     dividendYield |-> dy]

\* the overview test with only the empty-object part
alphaOverviewRejectedEmptyOnly(overview) == overview.kind = "empty"

\* fetchFromFMP, after the quote call: does the client go on to the metrics call?
fmpQuoteUsable(quoteData) == quoteData.kind = "fmpquote"
\* fetchFromFMP, after the metrics call: the merged record
fmpMerge(quote, metricsData) ==
    LET metrics == IF metricsData.kind = "fmpmetrics" THEN metricsData ELSE EmptyMetrics
    IN  Fundamental(quote.price,
                    OrElse(metrics.EarningsPerShareTTM, OrElse(quote.eps, quote.epsTTM)),
                    OrElse(metrics.bookValuePerShare, metrics.bookValue),
                    OrElse(metrics.enterpriseValue, quote.enterpriseValue),
                    OrElse(metrics.EBITDA, quote.ebitda),
                    NaN,
                    OrElse(metrics.dividendPerShare, quote.lastDiv),
                    OrElse(metrics.dividendYield, quote.dividendYield))

\* fetchFromAlpha, after the overview call:
\* !overview || Object.keys(overview).length === 0 || overview.Note || overview['Error Message']
\* (a non-empty text is truthy, has keys, and has neither member)
alphaOverviewRejected(overview) == overview.kind \in {"empty", "note", "error"}
\* fetchFromAlpha, after the quote call: !quote || !quote['05. price']
alphaQuoteRejected(quoteData) == quoteData.kind # "quote"
\* the returned record; every member of an overview that is a text is undefined
alphaMerge(overview, quoteData) ==
    IF overview.kind = "overview"
    THEN Fundamental(quoteData.price, overview.EPS, overview.BookValue,
                     overview.EnterpriseValue, overview.EBITDA, overview.EVToEBITDA,
                     overview.DividendPerShare, overview.DividendYield)
    ELSE Fundamental(quoteData.price, NaN, NaN, NaN, NaN, NaN, NaN, NaN)

(***************************************************************************)
(* State.                                                                  *)
(*   API_KEYS     the provider keys [alpha, fmp]                           *)
(*   procs        the running async functions: "full" is the full-scan     *)
(*                click handler (scanAndDisplayUndervalued), "batch" a     *)
(*                call of scanAllUndervalued, "m1" a manual-scan handler   *)
(*   table        what renderResults last put in the results table         *)
(*   emitted      the row sequences the streaming scan handed to           *)
(*                renderResults, in order (history)                        *)
(*   fullScanBtn  the full-scan button [disabled, textContent]             *)
(*   oracle       the environment: the outcomes each provider endpoint may *)
(*                give for each symbol                                     *)
(*   listingOffer the outcomes the listing endpoint may give               *)
(***************************************************************************)
VARIABLES API_KEYS, procs, table, emitted, fullScanBtn, oracle, listingOffer

vars == <<API_KEYS, procs, table, emitted, fullScanBtn, oracle, listingOffer>>

ManualProcs == {"m1"}
EngineProcs == {"full", "batch"}
Procs == EngineProcs \cup ManualProcs
Kind(p) == IF p \in EngineProcs THEN p ELSE "manual"

\* String.prototype.toUpperCase on the symbols of the model
toUpperCase(s) ==
    CASE s = "msft" -> "MSFT"
      [] s = "ibm" -> "IBM"
      [] OTHER -> s
\* String.prototype.trim on the strings of the model
trim(s) ==
    CASE s = " CCC " -> "CCC"
      [] s = "  " -> ""
      [] s = " k2 " -> "k2"
      [] OTHER -> s

(***************************************************************************)
(* lookupTicker, fetchFromFMP and fetchFromAlpha.  A lookup in progress is *)
(* [symbol, keys0, issued, got, fmpCalled, fmpData]: the upper-cased       *)
(* symbol, API_KEYS when lookupTicker was called, the requests issued so   *)
(* far, the outcomes received for them, and what fetchFromFMP returned.  A *)
(* step of the lookup yields [pc, look, held, data]: pc "ret" when         *)
(* lookupTicker has returned data, "rejected" when its promise rejected,   *)
(* else the call it waits for, with the body held in a local across the    *)
(* await.                                                                  *)
(***************************************************************************)
Request(provider, endpoint, symbol, key) ==
    [provider |-> provider, endpoint |-> endpoint, symbol |-> symbol, key |-> key]
Issue(look, req) == [look EXCEPT !.issued = Append(@, req)]
\* the outcome of the outstanding request arrives
Receive(look, outcome) == [look EXCEPT !.got = Append(@, outcome)]
Waiting(pc, look, held) == [pc |-> pc, look |-> look, held |-> held, data |-> NullData]
Returned(look, data) == [pc |-> "ret", look |-> look, held |-> NoBody, data |-> data]
\* an exception leaves lookupTicker
Rejected(look) == [pc |-> "rejected", look |-> look, held |-> NoBody, data |-> NullData]

\* tryAlpha with the test of data left out: if (API_KEYS.alpha) data = await fetchFromAlpha(upper)
tryAlphaAlways(keys, look, data) ==
    IF keys.alpha # ""
    THEN Waiting("alphaOverview",
                 Issue(look, Request("alpha", "OVERVIEW", look.symbol, keys.alpha)), NoBody)
    ELSE Returned(look, data)

\* tryAlpha with the test of the key left out: if (!data) data = await fetchFromAlpha(upper)
tryAlphaUngated(keys, look, data) ==
    IF IsNull(data)
    THEN Waiting("alphaOverview",
                 Issue(look, Request("alpha", "OVERVIEW", look.symbol, keys.alpha)), NoBody)
    ELSE Returned(look, data)

\* lookupTicker after the FMP branch: if (!data && API_KEYS.alpha) data = await fetchFromAlpha(upper)
\* and fetchFromAlpha up to its first request
tryAlpha(keys, look, data) ==
    IF IsNull(data) /\ keys.alpha # ""
    THEN Waiting("alphaOverview",
                 Issue(look, Request("alpha", "OVERVIEW", look.symbol, keys.alpha)), NoBody)
    ELSE Returned(look, data)

\* fetchFromFMP has returned data to lookupTicker
fmpReturned(keys, look, data) ==
    tryAlpha(keys, [look EXCEPT !.fmpCalled = TRUE, !.fmpData = data], data)

\* lookupTicker(symbol) up to its first network call
lookupTicker(keys, symbol) ==
    LET look == [symbol |-> toUpperCase(symbol), keys0 |-> keys, issued |-> <<>>,
                 got |-> <<>>, fmpCalled |-> FALSE, fmpData |-> NullData]
    IN  IF keys.fmp # ""
        THEN Waiting("fmpQuote",
                     Issue(look, Request("fmp", "quote", look.symbol, keys.fmp)), NoBody)
        ELSE tryAlpha(keys, look, NullData)

\* onFmpQuote without the catch of fetchFromFMP
onFmpQuoteUncaught(keys, look0, outcome) ==
    LET quoteData == fetchWithProxy(outcome)
        look == Receive(look0, outcome)
    IN  IF quoteData.kind = "thrown" THEN Rejected(look)
        ELSE IF ~fmpQuoteUsable(quoteData) THEN fmpReturned(keys, look, NullData)
        ELSE Waiting("fmpMetrics",
                     Issue(look, Request("fmp", "key-metrics", look.symbol, keys.fmp)),
                     quoteData)

\* fetchFromFMP resumed by the outcome of the quote call
onFmpQuote(keys, look0, outcome) ==
    LET quoteData == fetchWithProxy(outcome)
        look == Receive(look0, outcome)
    IN  IF quoteData.kind = "thrown" THEN fmpReturned(keys, look, NullData)
        ELSE IF ~fmpQuoteUsable(quoteData) THEN fmpReturned(keys, look, NullData)
        ELSE Waiting("fmpMetrics",
                     Issue(look, Request("fmp", "key-metrics", look.symbol, keys.fmp)),
                     quoteData)

\* fetchFromFMP resumed by the outcome of the key-metrics call
onFmpMetrics(keys, look0, quote, outcome) ==
    LET metricsData == fetchWithProxy(outcome)
        look == Receive(look0, outcome)
    IN  IF metricsData.kind = "thrown" THEN fmpReturned(keys, look, NullData)
        ELSE fmpReturned(keys, look, fmpMerge(quote, metricsData))

\* fetchFromAlpha resumed by the outcome of the OVERVIEW call
onAlphaOverview(keys, look0, outcome) ==
    LET overview == fetchWithProxy(outcome)
        look == Receive(look0, outcome)
    IN  IF overview.kind = "thrown" THEN Returned(look, NullData)
        ELSE IF alphaOverviewRejected(overview) THEN Returned(look, NullData)
        ELSE Waiting("alphaQuote",
                     Issue(look, Request("alpha", "GLOBAL_QUOTE", look.symbol, keys.alpha)),
                     overview)

\* fetchFromAlpha resumed by the outcome of the GLOBAL_QUOTE call
onAlphaQuote(keys, look0, overview, outcome) ==
    LET quoteData == fetchWithProxy(outcome)
        look == Receive(look0, outcome)
    IN  IF quoteData.kind = "thrown" THEN Returned(look, NullData)
        ELSE IF alphaQuoteRejected(quoteData) THEN Returned(look, NullData)
        ELSE Returned(look, alphaMerge(overview, quoteData))

(***************************************************************************)
(* Rows and Array.prototype.sort.  sort is stable; with a comparator that  *)
(* is a total preorder its result is the one stable insertion builds.  A   *)
(* comparator value of NaN (Infinity - Infinity) counts as 0.              *)
(***************************************************************************)
ScanRow(symbol, metrics, price, intrinsicVal) ==
    [ticker |-> toUpperCase(symbol), price |-> metrics.price, eps |-> metrics.eps,
     pe |-> metrics.pe, bookValue |-> metrics.bookValue, pb |-> metrics.pb,
     evEbitda |-> metrics.evEbitda, dividendPerShare |-> metrics.dividendPerShare,
     dividendYield |-> metrics.dividendYield,
     intrinsicDividend |-> metrics.intrinsicDividend,
     _priceNumeric |-> price, _intrinsicNumeric |-> intrinsicVal]
\* the rows handed on as they are
DisplayRowWhole(r) == r

\* the map(({ticker, price, ...}) => ({ticker, price, ...})) of both scans
DisplayRow(r) ==
    [ticker |-> r.ticker, price |-> r.price, eps |-> r.eps, pe |-> r.pe,
     bookValue |-> r.bookValue, pb |-> r.pb, evEbitda |-> r.evEbitda,
     dividendPerShare |-> r.dividendPerShare, dividendYield |-> r.dividendYield,
     intrinsicDividend |-> r.intrinsicDividend]
DisplayRows(rows) == [i \in 1..Len(rows) |-> DisplayRow(rows[i])]
\* the manual scan's row: { ticker: ticker.toUpperCase(), ...metrics }
ManualRow(symbol, metrics) == DisplayRow(ScanRow(symbol, metrics, NaN, NaN))

\* a sort key: a number, or Infinity
Infinity == <<1, 0>>
\* comparator(a, b) <= 0, from the two keys
KeyLE(ka, kb) ==
    IF ka = Infinity THEN kb = Infinity
    ELSE IF kb = Infinity THEN TRUE
    ELSE ~Less(kb, ka)
\* scanAndDisplayUndervalued: a._priceNumeric / a._intrinsicNumeric
streamKey(r) == Divide(r._priceNumeric, r._intrinsicNumeric)
\* scanAllUndervalued: (a._priceNumeric && a._intrinsicNumeric) ? ratio : Infinity
batchKey(r) ==
    IF Truthy(r._priceNumeric) /\ Truthy(r._intrinsicNumeric)
    THEN Divide(r._priceNumeric, r._intrinsicNumeric) ELSE Infinity
\* scan button: a.pe === 'N/A' ? Infinity : parseFloat(a.pe)
peKey(r) == IF r.pe = NA THEN Infinity ELSE parseFloatFixed(r.pe)
SortKey(mode, r) ==
    CASE mode = "full" -> streamKey(r)
      [] mode = "batch" -> batchKey(r)
      [] OTHER -> peKey(r)
\* x put after every element of the sorted s that compares <= x
InsertSorted(mode, s, x) ==
    LET k == Cardinality({i \in 1..Len(s) : KeyLE(SortKey(mode, s[i]), SortKey(mode, x))})
    IN  SubSeq(s, 1, k) \o <<x>> \o SubSeq(s, k + 1, Len(s))
RECURSIVE sort(_, _)
sort(mode, rows) ==
    IF rows = <<>> THEN <<>>
    ELSE InsertSorted(mode, sort(mode, SubSeq(rows, 1, Len(rows) - 1)), rows[Len(rows)])

\* renderResults(rows)
renderResults(rows) ==
    [rows |-> rows, display |-> IF Len(rows) > 0 THEN "block" ELSE "none"]
\* resultsBody.innerHTML = ''; resultsTable.style.display = 'none'
ClearedTable == [rows |-> <<>>, display |-> "none"]

(***************************************************************************)
(* The loops.  A world is what one job reads and writes: [st, table,       *)
(* emitted, btn], st being the record of the async function that runs.     *)
(***************************************************************************)
\* the inclusion test with <= for <
undervaluedOrEqual(fundamental) ==
    LET price == NumberOrNull(fundamental.price)
        dividend == NumberOrNull(fundamental.dividendPerShare)
        intrinsicVal == IF Truthy(dividend) THEN Divide(dividend, discountRate) ELSE Null
    IN  IsNumber(price) /\ IsNumber(intrinsicVal) /\ ~Less(intrinsicVal, price)

\* the inclusion test of both scans
undervalued(fundamental) ==
    LET price == NumberOrNull(fundamental.price)
        dividend == NumberOrNull(fundamental.dividendPerShare)
        intrinsicVal == IF Truthy(dividend) THEN Divide(dividend, discountRate) ELSE Null
    IN  IsNumber(price) /\ IsNumber(intrinsicVal) /\ Less(price, intrinsicVal)
\* the row both scans push for a symbol that passes the test
undervaluedRow(symbol, fundamental) ==
    ScanRow(symbol, computeMetrics(fundamental), fundamental.price,
            Divide(fundamental.dividendPerShare, discountRate))

\* break for continue
skipSymbolBreak(w) == [w EXCEPT !.st.idx = Len(w.st.tickers)]

\* what the loop does when lookupTicker gave no data: continue
skipSymbol(w) == [w EXCEPT !.st.idx = @ + 1]

\* loopBody that renders the rows as pushed, without the sort
loopBodyUnsorted(kind, w, symbol, fundamental) ==
    IF IsNull(fundamental) THEN skipSymbol(w)
    ELSE IF ~undervalued(fundamental) THEN [w EXCEPT !.st.idx = @ + 1]
    ELSE
        LET results == Append(w.st.results, undervaluedRow(symbol, fundamental))
        IN  [w EXCEPT !.st.idx = @ + 1,
                      !.st.results = results,
                      !.table = IF kind = "full" THEN renderResults(DisplayRows(results)) ELSE @,
                      !.emitted = IF kind = "full" THEN Append(@, DisplayRows(results)) ELSE @]

\* loopBody that renders only once a second row has been found
loopBodyLateRender(kind, w, symbol, fundamental) ==
    IF IsNull(fundamental) THEN skipSymbol(w)
    ELSE IF ~undervalued(fundamental) THEN [w EXCEPT !.st.idx = @ + 1]
    ELSE
        LET results == sort("full", Append(w.st.results, undervaluedRow(symbol, fundamental)))
            shown == kind = "full" /\ Len(results) > 1
        IN  [w EXCEPT !.st.idx = @ + 1,
                      !.st.results = results,
                      !.table = IF shown THEN renderResults(DisplayRows(results)) ELSE @,
                      !.emitted = IF shown THEN Append(@, DisplayRows(results)) ELSE @]

\* the body of one iteration, lookupTicker having returned fundamental
loopBody(kind, w, symbol, fundamental) ==
    IF IsNull(fundamental) THEN skipSymbol(w)
    ELSE IF kind = "manual" THEN
        [w EXCEPT !.st.idx = @ + 1,
                  !.st.results = Append(@, ManualRow(symbol, computeMetrics(fundamental)))]
    ELSE IF ~undervalued(fundamental) THEN [w EXCEPT !.st.idx = @ + 1]
    ELSE IF kind = "batch" THEN
        [w EXCEPT !.st.idx = @ + 1,
                  !.st.results = Append(@, undervaluedRow(symbol, fundamental))]
    ELSE
        LET results == sort("full", Append(w.st.results, undervaluedRow(symbol, fundamental)))
            displayRows == DisplayRows(results)
        IN  [w EXCEPT !.st.idx = @ + 1,
                      !.st.results = results,
                      !.table = renderResults(displayRows),
                      !.emitted = Append(@, displayRows)]

\* finish without the finally of the full-scan handler
finishNoFinally(kind, w) ==
    CASE kind = "manual" ->
           LET rows == sort("manual", w.st.results)
           IN  [w EXCEPT !.st.pc = "done", !.st.results = rows,
                         !.table = renderResults(rows)]
      [] kind = "batch" ->
           LET results == sort("batch", w.st.results)
           IN  [w EXCEPT !.st.pc = "done", !.st.results = results,
                         !.st.returned = DisplayRows(results)]
      [] OTHER -> [w EXCEPT !.st.pc = "done"]

\* after the loop
finish(kind, w) ==
    CASE kind = "manual" ->
           LET rows == sort("manual", w.st.results)
           IN  [w EXCEPT !.st.pc = "done", !.st.results = rows,
                         !.table = renderResults(rows)]
      [] kind = "batch" ->
           LET results == sort("batch", w.st.results)
           IN  [w EXCEPT !.st.pc = "done", !.st.results = results,
                         !.st.returned = DisplayRows(results)]
      [] OTHER ->
           \* scanAndDisplayUndervalued returns; the click handler's finally runs
           [w EXCEPT !.st.pc = "done",
                     !.btn = [disabled |-> FALSE, textContent |-> w.st.originalText]]

(***************************************************************************)
(* The record of an async function, and the for-of loop run up to the next *)
(* network call.  Beside the locals (pc, tickers, idx, results, look,      *)
(* held, originalText, limit, returned) it keeps history: looked, the      *)
(* symbols lookupTicker was called with; seen, what each call returned;    *)
(* looks, the finished lookups; last, the latest finished lookup.          *)
(***************************************************************************)
NoLook == [symbol |-> "", keys0 |-> [alpha |-> "", fmp |-> ""], issued |-> <<>>,
           got |-> <<>>, fmpCalled |-> FALSE, fmpData |-> NullData]
NoLast == [look |-> NoLook, data |-> NullData]
IdleProc ==
    [pc |-> "idle", tickers |-> <<>>, idx |-> 0, results |-> <<>>, look |-> NoLook,
     held |-> NoBody, last |-> NoLast, looked |-> <<>>, seen |-> <<>>, looks |-> <<>>,
     returned |-> <<>>, originalText |-> "", limit |-> Num(0)]

\* lookupTicker has returned r.data to the loop
Completed(w, r) ==
    [w EXCEPT !.st.last = [look |-> r.look, data |-> r.data],
              !.st.seen = Append(@, r.data),
              !.st.looks = Append(@, r.look),
              !.st.look = NoLook, !.st.held = NoBody]
\* the function is suspended on the call r.pc
Suspended(w, r) == [w EXCEPT !.st.pc = r.pc, !.st.look = r.look, !.st.held = r.held]

\* lookupTicker rejected.  The scans catch inside the iteration and go on
\* to the next symbol; the scan button's handler has no try and ends rejected.
caught(kind, w, r) ==
    IF kind = "manual"
    THEN [w EXCEPT !.st.pc = "rejected", !.st.look = NoLook, !.st.held = NoBody]
    ELSE skipSymbol(Completed(w, r))

\* for (const symbol of tickers) { ... await lookupTicker(symbol) ... }
RECURSIVE RunLoop(_, _, _)
RunLoop(kind, keys, w) ==
    IF w.st.pc = "rejected" THEN w
    ELSE IF w.st.idx = Len(w.st.tickers) THEN finish(kind, w)
    ELSE LET symbol == w.st.tickers[w.st.idx + 1]
             r == lookupTicker(keys, symbol)
             w1 == [w EXCEPT !.st.looked = Append(@, symbol)]
         IN  IF r.pc = "ret"
             THEN RunLoop(kind, keys, loopBody(kind, Completed(w1, r), symbol, r.data))
             ELSE IF r.pc = "rejected" THEN RunLoop(kind, keys, caught(kind, w1, r))
             ELSE Suspended(w1, r)

\* the loop resumed by a step r of the lookup it was waiting for
Resume(kind, keys, w, r) ==
    IF r.pc = "ret"
    THEN RunLoop(kind, keys,
                 loopBody(kind, Completed(w, r), w.st.tickers[w.st.idx + 1], r.data))
    ELSE IF r.pc = "rejected" THEN RunLoop(kind, keys, caught(kind, w, r))
    ELSE Suspended(w, r)

(***************************************************************************)
(* fetchNasdaqList(limit), resumed by the outcome of the listing call.  A  *)
(* listing body is [kind |-> "listing", rows |-> the symbol member of each *)
(* row, "" when missing].                                                  *)
(***************************************************************************)
ListingBody(rows) == [kind |-> "listing", rows |-> rows]
Min(a, b) == IF a < b THEN a ELSE b
\* fetchNasdaqList that slices without testing the limit first
fetchNasdaqListUnguarded(limit, outcome) ==
    LET data == fetchWithProxy(outcome)
        rows == IF data.kind = "listing" THEN data.rows ELSE <<>>
        symbols == SelectSeq([i \in 1..Len(rows) |-> trim(rows[i])], LAMBDA x : x # "")
    IN  IF data.kind = "thrown" \/ ~IsNumber(limit) THEN <<>>
        ELSE IF ~isFinite(limit) THEN symbols
        ELSE IF limit[1] >= 0 THEN SubSeq(symbols, 1, Min(limit[1], Len(symbols)))
        ELSE SubSeq(symbols, 1, Len(symbols) + limit[1])

\* fetchNasdaqList that falls back to one symbol when the listing call throws
fetchNasdaqListFallback(limit, outcome) ==
    LET data == fetchWithProxy(outcome)
        rows == IF data.kind = "listing" THEN data.rows ELSE <<>>
        symbols == SelectSeq([i \in 1..Len(rows) |-> trim(rows[i])], LAMBDA x : x # "")
    IN  IF data.kind = "thrown" THEN <<"MSFT">>
        ELSE IF ~Truthy(limit) \/ ~isFinite(limit) \/ limit[1] <= 0 THEN symbols
        ELSE SubSeq(symbols, 1, Min(limit[1], Len(symbols)))

fetchNasdaqList(limit, outcome) ==
    LET data == fetchWithProxy(outcome)
        rows == IF data.kind = "listing" THEN data.rows ELSE <<>>
        symbols == SelectSeq([i \in 1..Len(rows) |-> trim(rows[i])], LAMBDA x : x # "")
    IN  IF data.kind = "thrown" THEN <<>>
        ELSE IF ~Truthy(limit) \/ ~isFinite(limit) \/ limit[1] <= 0 THEN symbols
        ELSE SubSeq(symbols, 1, Min(limit[1], Len(symbols)))

(***************************************************************************)
(* Actions.                                                                *)
(***************************************************************************)
World(p) == [st |-> procs[p], table |-> table, emitted |-> emitted, btn |-> fullScanBtn]
Apply(p, w) ==
    /\ procs' = [procs EXCEPT ![p] = w.st]
    /\ table' = w.table
    /\ emitted' = w.emitted
    /\ fullScanBtn' = w.btn

\* the override without its test: API_KEYS.alpha = apiKeyInput.value.trim()
keysAfterInputUntested(keys, keyInput) == [keys EXCEPT !.alpha = trim(keyInput)]

\* if (apiKeyInput && apiKeyInput.value && apiKeyInput.value.trim()) API_KEYS.alpha = ...
keysAfterInput(keys, keyInput) ==
    IF keyInput # "" /\ trim(keyInput) # "" THEN [keys EXCEPT !.alpha = trim(keyInput)]
    ELSE keys

WaitPcs == {"list", "fmpQuote", "fmpMetrics", "alphaOverview", "alphaQuote"}
Free(p) == procs[p].pc \notin WaitPcs

\* values the user may have typed in the API key field / the tickers field
\* (the tickers already split at commas and white space, empties dropped)
KeyInputs == {"", "  ", " k2 "}
TypedTickers == <<"msft", "AAA", "BBB", "CCC">>
TickerInputs == {SubSeq(TypedTickers, 1, n) : n \in 0..MaxTickers}

\* scanBtn click handler, up to its first network call
ClickScan(m, keyInput, symbols) ==
    /\ Free(m)
    /\ LET keys == keysAfterInput(API_KEYS, keyInput)
       IN  /\ API_KEYS' = keys
           /\ IF symbols = <<>>
              THEN UNCHANGED <<procs, table, emitted, fullScanBtn>>
              ELSE Apply(m, RunLoop("manual", keys,
                                    [World(m) EXCEPT !.st = [IdleProc EXCEPT !.tickers = symbols]]))
    /\ UNCHANGED <<oracle, listingOffer>>

\* the handler without fullScanBtn.disabled = true
ClickFullScanNoDisable(keyInput) ==
    /\ ~fullScanBtn.disabled
    /\ API_KEYS' = keysAfterInput(API_KEYS, keyInput)
    /\ procs' = [procs EXCEPT !["full"] =
                    [IdleProc EXCEPT !.pc = "list", !.limit = Num(0),
                                     !.originalText = fullScanBtn.textContent]]
    /\ fullScanBtn' = [disabled |-> FALSE, textContent |-> "Scanning..."]
    /\ emitted' = <<>>
    /\ UNCHANGED <<table, oracle, listingOffer>>

\* fullScanBtn click handler, up to the listing call of fetchNasdaqList(0)
ClickFullScan(keyInput) ==
    /\ ~fullScanBtn.disabled
    /\ API_KEYS' = keysAfterInput(API_KEYS, keyInput)
    /\ procs' = [procs EXCEPT !["full"] =
                    [IdleProc EXCEPT !.pc = "list", !.limit = Num(0),
                                     !.originalText = fullScanBtn.textContent]]
    /\ fullScanBtn' = [disabled |-> TRUE, textContent |-> "Scanning..."]
    /\ emitted' = <<>>
    /\ UNCHANGED <<table, oracle, listingOffer>>

\* a call scanAllUndervalued(limit), up to the listing call
CallScanAll(limit) ==
    /\ Free("batch")
    /\ procs' = [procs EXCEPT !["batch"] = [IdleProc EXCEPT !.pc = "list", !.limit = limit]]
    /\ UNCHANGED <<API_KEYS, table, emitted, fullScanBtn, oracle, listingOffer>>

\* the listing call of p ends; the scan runs up to its next network call
ListResponse(p) ==
    /\ procs[p].pc = "list"
    /\ \E outcome \in listingOffer :
         LET tickers == fetchNasdaqList(procs[p].limit, outcome)
             w == [World(p) EXCEPT !.st.tickers = tickers,
                                   !.table = IF p = "full" THEN ClearedTable ELSE @]
         IN  Apply(p, RunLoop(Kind(p), API_KEYS, w))
    /\ UNCHANGED <<API_KEYS, oracle, listingOffer>>

\* the outcomes the environment may give p's outstanding request
Offered(p, endpoint) == oracle[procs[p].look.symbol][endpoint]

FmpQuoteResponse(p) ==
    /\ procs[p].pc = "fmpQuote"
    /\ \E outcome \in Offered(p, "fmpQuote") :
         Apply(p, Resume(Kind(p), API_KEYS, World(p),
                         onFmpQuote(API_KEYS, procs[p].look, outcome)))
    /\ UNCHANGED <<API_KEYS, oracle, listingOffer>>

FmpMetricsResponse(p) ==
    /\ procs[p].pc = "fmpMetrics"
    /\ \E outcome \in Offered(p, "fmpMetrics") :
         Apply(p, Resume(Kind(p), API_KEYS, World(p),
                         onFmpMetrics(API_KEYS, procs[p].look, procs[p].held, outcome)))
    /\ UNCHANGED <<API_KEYS, oracle, listingOffer>>

AlphaOverviewResponse(p) ==
    /\ procs[p].pc = "alphaOverview"
    /\ \E outcome \in Offered(p, "overview") :
         Apply(p, Resume(Kind(p), API_KEYS, World(p),
                         onAlphaOverview(API_KEYS, procs[p].look, outcome)))
    /\ UNCHANGED <<API_KEYS, oracle, listingOffer>>

AlphaQuoteResponse(p) ==
    /\ procs[p].pc = "alphaQuote"
    /\ \E outcome \in Offered(p, "quote") :
         Apply(p, Resume(Kind(p), API_KEYS, World(p),
                         onAlphaQuote(API_KEYS, procs[p].look, procs[p].held, outcome)))
    /\ UNCHANGED <<API_KEYS, oracle, listingOffer>>

(***************************************************************************)
(* The environment: provider and listing outcomes.                         *)
(***************************************************************************)
\* an OVERVIEW body with dividend per share dps
Overview(dps) == OverviewBody(Num(5), Num(20), Num(1000), Num(100), NaN, dps, NaN)
Offer(overview, quote, fmpQuote, fmpMetrics) ==
    [overview |-> overview, quote |-> quote, fmpQuote |-> fmpQuote, fmpMetrics |-> fmpMetrics]
\* one fixed outcome per Alpha Vantage endpoint
Scenario(overview, quote) == Offer({overview}, {quote}, {Fault}, {Fault})
Scenarios ==
    { Scenario(Fault, Fault),
      Scenario(Ok(Overview(Num(4))), HttpError),
      Scenario(Ok(Overview(Num(4))), Ok(QuoteBody(Num(50)))),
      Scenario(Ok(Overview(Num(5))), Ok(QuoteBody(Num(40)))),
      Scenario(Ok(Overview(Num(4))), Ok(QuoteBody(Num(0)))),
      Scenario(Ok(Overview(Num(4))), Ok(QuoteBody(Num(25)))),
      Scenario(Ok(Overview(Num(8))), Ok(QuoteBody(Num(50)))),
      Scenario(Ok(Overview(NaN)), Ok(QuoteBody(Num(40)))),
      Scenario(Ok(Overview(Num(0))), Ok(QuoteBody(Num(40)))),
      Scenario(Ok(Overview(Num(4))), Ok(QuoteBody(NaN))) }
\* any outcome at each call
AnyOutcome ==
    Offer({Fault, Ok(Overview(Num(4)))},
          {Ok(NoPriceBody), Ok(QuoteBody(Num(25)))},
          {Fault, Ok(EmptyObject), Ok(FmpQuoteBody(Num(40), Num(5), Num(4)))},
          {Fault, Ok(FmpMetricsBody(Num(2), Num(20), NaN))})

\* the symbol members of the listing rows, in listing order
ListingRows == <<"AAA", "BBB", " CCC ", "DDD", "EEE">>
Listing(n) == ListingBody(SubSeq(ListingRows, 1, n))
ProviderSymbols == {"AAA", "BBB", "CCC", "DDD", "EEE", "MSFT", "IBM"}
ListedSymbols(n) == {trim(ListingRows[i]) : i \in 1..n}

(***************************************************************************)
(* The page as shipped: API_KEYS = { alpha: 'demo', fmp: '' }.             *)
(***************************************************************************)
InitDom ==
    /\ procs = [p \in Procs |-> IdleProc]
    /\ table = ClearedTable
    /\ emitted = <<>>
    /\ fullScanBtn = [disabled |-> FALSE, textContent |-> "Full Market Scan"]

Init ==
    /\ API_KEYS = [alpha |-> "demo", fmp |-> ""]
    /\ InitDom
    /\ oracle = [s \in ProviderSymbols |-> AnyOutcome]
    /\ listingOffer = {Fault, Ok(TextBody), Ok(Listing(MaxListing - 1))}

PageProcs == {"full"} \cup ManualProcs

Next ==
    \/ \E m \in ManualProcs, keyInput \in KeyInputs, symbols \in TickerInputs :
         ClickScan(m, keyInput, symbols)
    \/ \E keyInput \in KeyInputs : ClickFullScan(keyInput)
    \/ ListResponse("full")
    \/ \E p \in PageProcs : AlphaOverviewResponse(p)
    \/ \E p \in PageProcs : AlphaQuoteResponse(p)

Spec == Init /\ [][Next]_vars

(***************************************************************************)
(* The page as shipped when every network call of the full market scan     *)
(* eventually resolves or rejects.  The scan button is clicked with at     *)
(* most one ticker typed, at any moment of the full market scan.           *)
(***************************************************************************)
LiveTickerInputs == {<<>>, <<"msft">>}

NextLive ==
    \/ \E m \in ManualProcs, keyInput \in KeyInputs, symbols \in LiveTickerInputs :
         ClickScan(m, keyInput, symbols)
    \/ \E keyInput \in KeyInputs : ClickFullScan(keyInput)
    \/ ListResponse("full")
    \/ \E p \in PageProcs : AlphaOverviewResponse(p)
    \/ \E p \in PageProcs : AlphaQuoteResponse(p)

SpecLive ==
    /\ Init /\ [][NextLive]_vars
    /\ WF_vars(ListResponse("full"))
    /\ WF_vars(AlphaOverviewResponse("full"))
    /\ WF_vars(AlphaQuoteResponse("full"))

(***************************************************************************)
(* The page with API_KEYS edited as its comment invites: either key may be *)
(* configured or empty.  Manual scans only.                                *)
(***************************************************************************)
InitConfigured ==
    /\ API_KEYS \in [alpha : {"", "demo"}, fmp : {"", "fmpkey"}]
    /\ InitDom
    /\ oracle = [s \in ProviderSymbols |-> AnyOutcome]
    /\ listingOffer = {Fault}

NextConfigured ==
    \/ \E m \in ManualProcs, keyInput \in KeyInputs, symbols \in TickerInputs :
         ClickScan(m, keyInput, symbols)
    \/ \E m \in ManualProcs : FmpQuoteResponse(m)
    \/ \E m \in ManualProcs : FmpMetricsResponse(m)
    \/ \E m \in ManualProcs : AlphaOverviewResponse(m)
    \/ \E m \in ManualProcs : AlphaQuoteResponse(m)

SpecConfigured == InitConfigured /\ [][NextConfigured]_vars

(***************************************************************************)
(* The two scan engines over one universe and one fixed set of provider    *)
(* responses.                                                              *)
(***************************************************************************)
BatchLimits == {Num(0), Num(2)}

InitEngine ==
    /\ API_KEYS = [alpha |-> "demo", fmp |-> ""]
    /\ InitDom
    /\ \E n \in 1..MaxListing :
         /\ listingOffer = {Ok(Listing(n))}
         /\ \E f \in [ListedSymbols(n) -> Scenarios] :
              oracle = [s \in ProviderSymbols |->
                          IF s \in ListedSymbols(n) THEN f[s] ELSE Scenario(Fault, Fault)]

NextEngine ==
    \/ Free("batch") /\ ClickFullScan("")
    \/ Free("full") /\ \E limit \in BatchLimits : CallScanAll(limit)
    \/ \E p \in EngineProcs : ListResponse(p)
    \/ \E p \in EngineProcs : AlphaOverviewResponse(p)
    \/ \E p \in EngineProcs : AlphaQuoteResponse(p)

SpecEngine == InitEngine /\ [][NextEngine]_vars

(***************************************************************************)
(* One scan of each kind over two symbols, either key configured or empty, *)
(* every kind of outcome at every provider call.                           *)
(***************************************************************************)
EveryOutcome ==
    Offer({Fault, HttpError, Ok(EmptyObject), Ok(NoteBody), Ok(ErrorBody), Ok(TextBody),
           Ok(Overview(Num(5)))},
          {Fault, Ok(TextBody), Ok(NoQuoteBody), Ok(NoPriceBody), Ok(QuoteBody(NaN)),
           Ok(QuoteBody(Num(40)))},
          {Fault, HttpError, Ok(TextBody), Ok(EmptyObject),
           Ok(FmpQuoteBody(Num(40), Num(5), Num(4)))},
          {Fault, Ok(TextBody), Ok(FmpMetricsBody(Num(2), Num(20), NaN))})

InitResponses ==
    /\ API_KEYS \in [alpha : {"", "demo"}, fmp : {"", "fmpkey"}]
    /\ InitDom
    /\ oracle = [s \in ProviderSymbols |-> EveryOutcome]
    /\ listingOffer = {Ok(Listing(2))}

\* no async function has started yet
NoneStarted == \A p \in Procs : procs[p].pc = "idle"

NextResponses ==
    \/ NoneStarted /\ ClickScan("m1", "", <<"msft", "ibm">>)
    \/ NoneStarted /\ ClickFullScan("")
    \/ NoneStarted /\ CallScanAll(Num(0))
    \/ \E p \in EngineProcs : ListResponse(p)
    \/ \E p \in Procs : FmpQuoteResponse(p)
    \/ \E p \in Procs : FmpMetricsResponse(p)
    \/ \E p \in Procs : AlphaOverviewResponse(p)
    \/ \E p \in Procs : AlphaQuoteResponse(p)

SpecResponses == InitResponses /\ [][NextResponses]_vars

(***************************************************************************)
(* The universe source: one scan over one listing outcome, drawn from the  *)
(* failures and from the listings of up to MaxListing records whose symbol *)
(* member may repeat, be padded or be missing.  Every symbol gets the same *)
(* provider responses, which pass the inclusion test.                      *)
(***************************************************************************)
\* the symbol member of a listing record
RowSymbols == {"AAA", "BBB", " CCC ", ""}
RECURSIVE RowSeqs(_)
RowSeqs(n) ==
    IF n = 0 THEN {<<>>}
    ELSE RowSeqs(n - 1) \cup
         {Append(r, x) : r \in {q \in RowSeqs(n - 1) : Len(q) = n - 1}, x \in RowSymbols}
\* listing outcomes that give no rows: transport failures, a body that is not
\* JSON, a JSON body without data.table.rows
ListingFailures == {Fault, HttpError, Ok(TextBody), Ok(EmptyObject)}
ListingOutcomes == ListingFailures \cup {Ok(ListingBody(rows)) : rows \in RowSeqs(MaxListing)}
\* the limit argument of a scan
Limits == {Num(0), Num(-1), Infinity, NaN, Num(1), Num(2)}

InitListing ==
    /\ API_KEYS = [alpha |-> "demo", fmp |-> ""]
    /\ InitDom
    /\ oracle = [s \in ProviderSymbols |->
                   Scenario(Ok(Overview(Num(5))), Ok(QuoteBody(Num(40))))]
    /\ \E outcome \in ListingOutcomes : listingOffer = {outcome}

NextListing ==
    \/ NoneStarted /\ ClickFullScan("")
    \/ NoneStarted /\ \E limit \in Limits : CallScanAll(limit)
    \/ \E p \in EngineProcs : ListResponse(p)
    \/ \E p \in EngineProcs : AlphaOverviewResponse(p)
    \/ \E p \in EngineProcs : AlphaQuoteResponse(p)

SpecListing == InitListing /\ [][NextListing]_vars

(***************************************************************************)
(* computeMetrics over a range of fundamentals: one manual scan of one     *)
(* ticker whose OVERVIEW and GLOBAL_QUOTE responses carry every            *)
(* combination of the values below (NaN is what parseFloat gives for a     *)
(* missing or non-numeric member).                                         *)
(***************************************************************************)
PriceValues == {NaN, Num(0), Num(40), Infinity}
EpsValues == {NaN, Num(0), Num(3), Infinity}
BookValues == {NaN, Num(0), Num(16)}
DividendValues == {NaN, Num(0), Num(4)}
EvToEbitdaValues == {NaN, Num(7), Infinity}
EnterpriseValues == {NaN, Num(0), Num(1000)}
EbitdaValues == {NaN, Num(0), Num(100)}

InitMetrics ==
    /\ API_KEYS = [alpha |-> "demo", fmp |-> ""]
    /\ InitDom
    /\ listingOffer = {Fault}
    /\ \E price \in PriceValues, eps \in EpsValues, bookValue \in BookValues,
          dps \in DividendValues, evToEbitda \in EvToEbitdaValues,
          ev \in EnterpriseValues, ebitda \in EbitdaValues :
         oracle = [s \in ProviderSymbols |->
                     Scenario(Ok(OverviewBody(eps, bookValue, ev, ebitda, evToEbitda, dps, NaN)),
                              Ok(QuoteBody(price)))]

NextMetrics ==
    \/ NoneStarted /\ ClickScan("m1", "", <<"msft">>)
    \/ AlphaOverviewResponse("m1")
    \/ AlphaQuoteResponse("m1")

SpecMetrics == InitMetrics /\ [][NextMetrics]_vars

(***************************************************************************)
(* Properties of the resolver, under SpecConfigured.                       *)
(***************************************************************************)
\* the lookups of p to judge: the one in progress and the latest finished one
Lookups(p) == {procs[p].look, procs[p].last.look} \ {NoLook}
IssuedTo(look, provider) ==
    {i \in 1..Len(look.issued) : look.issued[i].provider = provider}
BothConfigured(look) == look.keys0.alpha # "" /\ look.keys0.fmp # ""

\* C1: when both keys are configured and fetchFromFMP returned data, no request
\* goes to Alpha Vantage in that lookup and lookupTicker returns exactly the
\* record fetchFromFMP returned.
C1_ShortCircuit ==
    \A p \in Procs :
      /\ \A look \in Lookups(p) :
           (BothConfigured(look) /\ look.fmpCalled /\ ~IsNull(look.fmpData))
             => IssuedTo(look, "alpha") = {}
      /\ LET l == procs[p].last
         IN  (BothConfigured(l.look) /\ l.look.fmpCalled /\ ~IsNull(l.look.fmpData))
               => l.data = l.look.fmpData

\* C1 witness: a finished lookup with both keys configured in which
\* fetchFromFMP made its two calls and returned data
C1_Witness ==
    \E p \in Procs :
      LET l == procs[p].last
      IN  /\ BothConfigured(l.look)
          /\ l.look.fmpCalled
          /\ ~IsNull(l.look.fmpData)
          /\ Len(l.look.issued) = 2
          /\ l.data = l.look.fmpData

\* C10: a provider whose key is empty gets no request; fetchFromFMP is called
\* exactly when its key is configured; when it was not called or returned
\* nothing, Alpha Vantage gets a request exactly when its key is configured;
\* with neither key configured lookupTicker returns null after zero requests.
C10_KeyGating ==
    \A p \in Procs :
      /\ \A look \in Lookups(p) :
           /\ \A i \in 1..Len(look.issued) : look.issued[i].key # ""
           /\ look.keys0.fmp = "" => IssuedTo(look, "fmp") = {}
           /\ look.keys0.alpha = "" => IssuedTo(look, "alpha") = {}
           /\ look.keys0.fmp # "" => IssuedTo(look, "fmp") # {}
      /\ LET l == procs[p].last
         IN  l.look # NoLook =>
               /\ l.look.fmpCalled <=> l.look.keys0.fmp # ""
               /\ (~l.look.fmpCalled \/ IsNull(l.look.fmpData)) =>
                    (IssuedTo(l.look, "alpha") # {} <=> l.look.keys0.alpha # "")
               /\ (l.look.keys0.fmp = "" /\ l.look.keys0.alpha = "") =>
                    (l.look.issued = <<>> /\ IsNull(l.data))

\* C10 witness: a finished lookup with neither key configured: nothing was
\* requested and the result is null
C10_Witness ==
    \E p \in Procs :
      LET l == procs[p].last
      IN  /\ l.look # NoLook
          /\ l.look.keys0.fmp = "" /\ l.look.keys0.alpha = ""
          /\ l.look.issued = <<>>
          /\ IsNull(l.data)

(***************************************************************************)
(* Properties of the scan engines, under SpecEngine.                       *)
(***************************************************************************)
\* the inclusion criterion as claimed: fundamentals resolved, price and
\* dividendPerShare / 0.08 both present, price strictly below it
ClaimIncluded(f) ==
    /\ ~IsNull(f)
    /\ IsNumber(f.price)
    /\ IsNumber(f.dividendPerShare)
    /\ Less(f.price, Divide(f.dividendPerShare, discountRate))
\* the positions among the first n looked-up symbols that qualify
Qualifying(st, n) == {i \in 1..n : ClaimIncluded(st.seen[i])}
TickersOf(rows) == {rows[i].ticker : i \in 1..Len(rows)}
TickerAt(st, i) == toUpperCase(st.tickers[i])
\* price / intrinsic value of the symbol at position i
RatioAt(st, i) == Divide(st.seen[i].price, Divide(st.seen[i].dividendPerShare, discountRate))
PositionOf(st, ticker) == CHOOSE i \in 1..Len(st.tickers) : TickerAt(st, i) = ticker

\* C2: in both scans, the symbols that have a row are exactly the looked-up
\* symbols whose fundamentals are resolved with price and intrinsic value
\* present and price strictly below the intrinsic value, one row each.
C2_Inclusion ==
    \A p \in EngineProcs :
      LET st == procs[p]
      IN  /\ Len(st.seen) = st.idx
          /\ TickersOf(st.results) = {TickerAt(st, i) : i \in Qualifying(st, st.idx)}
          /\ Len(st.results) = Cardinality(Qualifying(st, st.idx))

\* C2 witness: both scans have finished over a universe in which one symbol
\* has price 50 and dividend 4 (price equal to the intrinsic value, no row) and
\* another price 40 and dividend 5 (a row)
C2_Witness ==
    \A p \in EngineProcs :
      LET st == procs[p]
      IN  /\ st.pc = "done"
          /\ \E i, j \in 1..st.idx :
               /\ ~IsNull(st.seen[i]) /\ ~IsNull(st.seen[j])
               /\ st.seen[i].price = Num(50) /\ st.seen[i].dividendPerShare = Num(4)
               /\ st.seen[j].price = Num(40) /\ st.seen[j].dividendPerShare = Num(5)
               /\ TickerAt(st, i) \notin TickersOf(st.results)
               /\ TickerAt(st, j) \in TickersOf(st.results)

\* C3 (as claimed): the sequence scanAllUndervalued returns is ascending by
\* price / intrinsicValue, rows lacking either value after all rows having both.
C3_BatchSorted ==
    LET st == procs["batch"]
        HasBoth(r) == IsNumber(r._priceNumeric) /\ IsNumber(r._intrinsicNumeric)
    IN  st.pc = "done" =>
          \A i, j \in 1..Len(st.results) :
            i < j =>
              /\ HasBoth(st.results[j]) => HasBoth(st.results[i])
              /\ (HasBoth(st.results[i]) /\ HasBoth(st.results[j])) =>
                   ~Less(streamKey(st.results[j]), streamKey(st.results[i]))

\* the first k qualifying positions of st, in listing order
RECURSIVE FirstQualifying(_, _, _)
FirstQualifying(st, k, from) ==
    IF k = 0 \/ from > Len(st.seen) THEN <<>>
    ELSE IF ClaimIncluded(st.seen[from])
         THEN <<from>> \o FirstQualifying(st, k - 1, from + 1)
         ELSE FirstQualifying(st, k, from + 1)
Ascending(st, rows) ==
    \A i, j \in 1..Len(rows) :
      i < j => ~Less(RatioAt(st, PositionOf(st, rows[j].ticker)),
                     RatioAt(st, PositionOf(st, rows[i].ticker)))

\* C4: while and after scanAndDisplayUndervalued runs, renderResults has been
\* called once for each qualifying symbol looked up so far and for no other;
\* the k-th call got the rows of the first k qualifying symbols of the
\* listing, ascending by price / intrinsicValue.
C4_StreamingEmission ==
    LET st == procs["full"]
    IN  st.pc # "idle" =>
          /\ Len(emitted) = Cardinality(Qualifying(st, st.idx))
          /\ \A k \in 1..Len(emitted) :
               LET first == FirstQualifying(st, k, 1)
               IN  /\ Len(emitted[k]) = k
                   /\ TickersOf(emitted[k]) = {TickerAt(st, first[i]) : i \in 1..k}
                   /\ \A i \in 1..k :
                        emitted[k][i] =
                          DisplayRow(undervaluedRow(st.tickers[PositionOf(st, emitted[k][i].ticker)],
                                                    st.seen[PositionOf(st, emitted[k][i].ticker)]))
                   /\ Ascending(st, emitted[k])
          /\ (emitted # <<>> => table.rows = emitted[Len(emitted)])

\* C4 witness: the streaming scan is waiting for its third symbol's lookup,
\* has rendered twice, and the second rendering put the later symbol first
C4_Witness ==
    LET st == procs["full"]
    IN  /\ st.pc \in {"alphaOverview", "alphaQuote"}
        /\ st.idx = 2
        /\ Len(emitted) = 2
        /\ emitted[2][1].ticker = TickerAt(st, 2)

\* is a obtained from b by removing the element at one position
RemovedOne(a, b) ==
    \E n \in 1..Len(b) : a = SubSeq(b, 1, n - 1) \o SubSeq(b, n + 1, Len(b))

\* C5: each rendering of the streaming scan is the one before it with exactly
\* one row put in, the earlier rows in their earlier order, and equals the
\* sort from scratch of its rows taken in listing order.
C5_PrefixConsistent ==
    LET st == procs["full"]
        Scratch(k) ==
          LET first == FirstQualifying(st, k, 1)
          IN  [i \in 1..Len(first) |-> undervaluedRow(st.tickers[first[i]], st.seen[first[i]])]
    IN  st.pc # "idle" =>
          /\ \A k \in 1..Len(emitted) : emitted[k] = DisplayRows(sort("full", Scratch(k)))
          /\ \A k \in 1..(Len(emitted) - 1) : RemovedOne(emitted[k], emitted[k + 1])

\* C5 witness: three renderings, the third row having gone between the two
\* earlier ones
C5_Witness ==
    /\ procs["full"].pc = "done"
    /\ Len(emitted) = 3
    /\ emitted[3][1] = emitted[2][1]
    /\ emitted[3][3] = emitted[2][2]

\* C6 (as claimed): run over the same listing with the same limit and the same
\* provider responses, the last sequence the streaming scan rendered is the
\* sequence scanAllUndervalued returns.
C6_ModesAgree ==
    (/\ procs["full"].pc = "done"
     /\ procs["batch"].pc = "done"
     /\ procs["batch"].limit = procs["full"].limit)
      => /\ TickersOf(procs["full"].results) = TickersOf(procs["batch"].results)
         /\ procs["batch"].returned =
              IF emitted = <<>> THEN <<>> ELSE emitted[Len(emitted)]

\* C7: in both scans every symbol of the universe is looked up, in listing
\* order, whatever lookups failed before it; the scan ends only after the last
\* symbol; and the rows of the qualifying symbols looked up so far are kept.
C7_ErrorIsolation ==
    \A p \in EngineProcs :
      LET st == procs[p]
          looking == IF st.pc \in WaitPcs \ {"list"} THEN 1 ELSE 0
      IN  /\ Len(st.looked) = st.idx + looking
          /\ st.looked = SubSeq(st.tickers, 1, Len(st.looked))
          /\ st.pc = "done" => st.idx = Len(st.tickers)
          /\ {TickerAt(st, i) : i \in Qualifying(st, st.idx)} \subseteq TickersOf(st.results)

\* the request of the symbol at position i ended in an exception (a network
\* fault or a non-success status), caught inside fetchFromAlpha
ThrewAt(st, i) ==
    LET offer == oracle[TickerAt(st, i)]
    IN  \/ offer.overview \subseteq {Fault, HttpError}
        \/ offer.quote \subseteq {Fault, HttpError} /\ offer.overview = {Ok(Overview(Num(4)))}

\* C7 witness: both scans have finished a universe of two or more symbols
\* whose first lookup threw, and both kept going and hold a row of a later
\* symbol
C7_Witness ==
    \A p \in EngineProcs :
      LET st == procs[p]
      IN  /\ st.pc = "done"
          /\ Len(st.tickers) >= 2
          /\ ThrewAt(st, 1)
          /\ st.looked = st.tickers
          /\ \E i \in 2..Len(st.tickers) : TickerAt(st, i) \in TickersOf(st.results)

(***************************************************************************)
(* Properties of the page under clicks, under Spec.                        *)
(***************************************************************************)
\* the click handlers that wait for a network call
Outstanding == {p \in PageProcs : procs[p].pc \in WaitPcs}

\* C8 (as claimed): under any sequence of clicks on the two buttons at most
\* one provider or universe request is outstanding.
C8_OneOutstanding == Cardinality(Outstanding) <= 1

\* C9 (as claimed): every request of a lookup carries the key that was
\* current when lookupTicker was called for that symbol.
C9_KeyAtLookupStart ==
    \A p \in PageProcs :
      \A look \in Lookups(p) :
        \A i \in 1..Len(look.issued) :
          look.issued[i].key = look.keys0[look.issued[i].provider]

(***************************************************************************)
(* Properties of the provider clients under every kind of response, under  *)
(* SpecResponses.                                                          *)
(***************************************************************************)
\* the outcomes a lookup received for its requests to an endpoint
GotAt(look, endpoint) ==
    {look.got[i] : i \in {j \in 1..Len(look.got) : look.issued[j].endpoint = endpoint}}
\* the finished lookups of p and the one in progress
AllLooks(p) == {procs[p].looks[i] : i \in 1..Len(procs[p].looks)} \cup Lookups(p)
\* the tickers of every row p has collected, rendered or returned
Shown(p) ==
    TickersOf(procs[p].results) \cup TickersOf(procs[p].returned) \cup TickersOf(table.rows)
      \cup UNION {TickersOf(emitted[k]) : k \in 1..Len(emitted)}
\* an OVERVIEW response that is {} or has Note or 'Error Message'
Markers == {Ok(EmptyObject), Ok(NoteBody), Ok(ErrorBody)}
Marked(look) == GotAt(look, "OVERVIEW") \cap Markers # {}

\* C11: a lookup whose OVERVIEW response is an empty object or carries Note or
\* 'Error Message' issues no GLOBAL_QUOTE request and returns null, and the
\* symbol has no row in what the scan collects, renders or returns.
C11_MarkerSkipped ==
    \A p \in Procs :
      LET st == procs[p]
      IN  /\ \A look \in AllLooks(p) :
                Marked(look) => \A i \in 1..Len(look.issued) :
                                   look.issued[i].endpoint # "GLOBAL_QUOTE"
          /\ \A i \in 1..Len(st.looks) :
                Marked(st.looks[i]) =>
                  /\ IsNull(st.seen[i])
                  /\ TickerAt(st, i) \notin Shown(p)

\* C11 witness: a finished scan whose first symbol got a Note response and
\* has no row while its second symbol has one
C11_Witness ==
    \E p \in Procs :
      LET st == procs[p]
      IN  /\ st.pc = "done"
          /\ Len(st.looks) = 2
          /\ Ok(NoteBody) \in GotAt(st.looks[1], "OVERVIEW")
          /\ TickerAt(st, 1) \notin Shown(p)
          /\ TickerAt(st, 2) \in Shown(p)

\* C12 (as claimed): fetchFromAlpha returns null whenever the quote response
\* has no price or a price that is not numeric, and never returns a record
\* whose price is not a number.
C12_NumericPrice ==
    \A p \in Procs :
      LET st == procs[p]
      IN  \A i \in 1..Len(st.looks) :
            LET look == st.looks[i]
                quotes == GotAt(look, "GLOBAL_QUOTE")
            IN  /\ (quotes \cap {Ok(TextBody), Ok(NoQuoteBody), Ok(NoPriceBody),
                                  Ok(QuoteBody(NaN))} # {}) => IsNull(st.seen[i])
                /\ (quotes # {} /\ ~IsNull(st.seen[i])) => IsNumber(st.seen[i].price)

\* C13 (as claimed): a provider client that receives a body that is not JSON
\* returns null, as it does on a transport failure.
C13_ParseFailureAbsent ==
    \A p \in Procs :
      LET st == procs[p]
      IN  \A i \in 1..Len(st.looks) :
            LET look == st.looks[i]
            IN  /\ Ok(TextBody) \in GotAt(look, "OVERVIEW") \cup GotAt(look, "GLOBAL_QUOTE")
                      => IsNull(st.seen[i])
                /\ Ok(TextBody) \in GotAt(look, "quote") \cup GotAt(look, "key-metrics")
                      => IsNull(look.fmpData)

\* the outcomes that make fetchWithProxy throw
Failures == {Fault, HttpError}
FmpFailed(look) == (GotAt(look, "quote") \cup GotAt(look, "key-metrics")) \cap Failures # {}
AlphaFailed(look) ==
    (GotAt(look, "OVERVIEW") \cup GotAt(look, "GLOBAL_QUOTE")) \cap Failures # {}

\* C14: no lookup and no handler ends rejected, whatever the transport outcome
\* of each call: every call of a finished lookup has settled and lookupTicker
\* returned data or null; a failed FMP call makes fetchFromFMP return null, and
\* then, the Alpha Vantage key being configured, fetchFromAlpha is called and
\* what it builds from a priced quote is what lookupTicker returns; a failed
\* Alpha Vantage call gives null.
C14_NoPropagation ==
    \A p \in Procs :
      LET st == procs[p]
      IN  /\ st.pc # "rejected"
          /\ Len(st.seen) = Len(st.looks)
          /\ \A i \in 1..Len(st.looks) :
                LET look == st.looks[i]
                IN  /\ Len(look.got) = Len(look.issued)
                    /\ AlphaFailed(look) => IsNull(st.seen[i])
                    /\ FmpFailed(look) =>
                          /\ look.fmpCalled /\ IsNull(look.fmpData)
                          /\ look.keys0.alpha # "" =>
                                /\ IssuedTo(look, "alpha") # {}
                                /\ \A o \in GotAt(look, "GLOBAL_QUOTE") :
                                      (o.net = "ok" /\ o.body.kind = "quote") =>
                                        /\ ~IsNull(st.seen[i])
                                        /\ st.seen[i].price = o.body.price

\* C14 witness: a finished scan with both keys configured whose first lookup
\* had its FMP quote call fail and got its data from Alpha Vantage, and whose
\* second lookup had an Alpha Vantage call answered with a non-success status
C14_Witness ==
    \E p \in Procs :
      LET st == procs[p]
      IN  /\ st.pc = "done"
          /\ Len(st.looks) = 2
          /\ BothConfigured(st.looks[1])
          /\ Fault \in GotAt(st.looks[1], "quote")
          /\ IssuedTo(st.looks[1], "alpha") # {}
          /\ ~IsNull(st.seen[1])
          /\ HttpError \in GotAt(st.looks[2], "OVERVIEW")
          /\ IsNull(st.seen[2])

(***************************************************************************)
(* Properties of the universe source, under SpecListing.                   *)
(***************************************************************************)
\* the listing outcome of the behaviour
TheListing == CHOOSE outcome \in listingOffer : TRUE
\* the symbols of a listing body: the symbol members, trimmed, empties dropped
SymbolsOf(body) ==
    SelectSeq([i \in 1..Len(body.rows) |-> trim(body.rows[i])], LAMBDA x : x # "")
\* has p got its universe list
Listed(p) == procs[p].pc \notin {"idle", "list"}
IsPositiveFinite(limit) == Len(limit) = 2 /\ limit[2] # 0 /\ limit[1] > 0

\* C15: over a listing, fetchNasdaqList(limit) returns the first limit symbols
\* in listing order when limit is a positive finite number (all of them when
\* there are fewer), and all the symbols when limit is zero, negative or not
\* finite.
C15_Truncation ==
    \A p \in EngineProcs :
      (Listed(p) /\ TheListing.net = "ok" /\ TheListing.body.kind = "listing") =>
        LET symbols == SymbolsOf(TheListing.body)
            limit == procs[p].limit
        IN  IF IsPositiveFinite(limit)
            THEN /\ Len(procs[p].tickers) = Min(limit[1], Len(symbols))
                 /\ \A i \in 1..Len(procs[p].tickers) : procs[p].tickers[i] = symbols[i]
            ELSE procs[p].tickers = symbols

\* C15 witness: scanAllUndervalued(2) over a listing of three symbols has
\* finished having looked up the first two
C15_Witness ==
    /\ procs["batch"].pc = "done"
    /\ procs["batch"].limit = Num(2)
    /\ TheListing = Ok(ListingBody(<<"BBB", "AAA", " CCC ">>))
    /\ procs["batch"].looked = <<"BBB", "AAA">>

\* are the elements of s pairwise different
Distinct(s) == \A i, j \in 1..Len(s) : i # j => s[i] # s[j]

\* C16 (as claimed): the universe list holds each symbol at most once, no
\* symbol is looked up twice and no ticker is in two rows of a result.
C16_UniverseUnique ==
    \A p \in EngineProcs :
      /\ Distinct(procs[p].tickers)
      /\ Distinct(procs[p].looked)
      /\ Distinct([i \in 1..Len(procs[p].results) |-> procs[p].results[i].ticker])

\* C17: when the listing call fails, or its body is not JSON or has no rows
\* path, the scan gets an empty universe, issues no provider request, ends
\* normally and yields no row.
C17_ListingFailure ==
    \A p \in EngineProcs :
      (Listed(p) /\ TheListing \in ListingFailures) =>
        /\ procs[p].pc = "done"
        /\ procs[p].tickers = <<>>
        /\ procs[p].looked = <<>>
        /\ procs[p].look = NoLook /\ procs[p].looks = <<>>
        /\ procs[p].results = <<>> /\ procs[p].returned = <<>>
        /\ emitted = <<>> /\ table.rows = <<>>
        /\ ~fullScanBtn.disabled

\* C17 witness: the full scan has ended after a listing call that ended in a
\* network fault
C17_Witness ==
    /\ TheListing = Fault
    /\ procs["full"].pc = "done"
    /\ procs["full"].tickers = <<>>
    /\ table = ClearedTable

(***************************************************************************)
(* Properties of the exposed rows, under SpecEngine.                       *)
(***************************************************************************)
DisplayFields ==
    {"ticker", "price", "eps", "pe", "bookValue", "pb", "evEbitda", "dividendPerShare",
     "dividendYield", "intrinsicDividend"}

\* C18: every row of every sequence the streaming scan hands to renderResults,
\* and every row of the sequence scanAllUndervalued returns, has exactly the
\* ten display fields; _priceNumeric and _intrinsicNumeric are in none.
C18_NoRankingFields ==
    /\ \A k \in 1..Len(emitted) :
         \A i \in 1..Len(emitted[k]) : DOMAIN emitted[k][i] = DisplayFields
    /\ \A i \in 1..Len(table.rows) : DOMAIN table.rows[i] = DisplayFields
    /\ \A i \in 1..Len(procs["batch"].returned) :
         DOMAIN procs["batch"].returned[i] = DisplayFields

\* C18 witness: both scans have finished, the streaming scan has rendered two
\* rows, scanAllUndervalued has returned two rows, and the rows they sorted
\* carry the two numeric fields
C18_Witness ==
    /\ procs["full"].pc = "done" /\ procs["batch"].pc = "done"
    /\ Len(table.rows) = 2
    /\ Len(procs["batch"].returned) = 2
    /\ \A p \in EngineProcs :
         \A i \in 1..Len(procs[p].results) :
           {"_priceNumeric", "_intrinsicNumeric"} \subseteq DOMAIN procs[p].results[i]

(***************************************************************************)
(* Properties of computeMetrics, under SpecMetrics.                        *)
(***************************************************************************)
\* the manual scan has rendered the row of its one ticker
Computed == procs["m1"].pc = "done" /\ Len(table.rows) = 1
\* a value that is present and finite
Usable(v) == Len(v) = 2 /\ v[2] # 0
\* the ratio field as claimed: "N/A" when the numerator is absent or not
\* finite or the denominator is absent, not finite or zero, else the quotient
\* to two decimals
ClaimedRatio(num, den) ==
    IF Usable(num) /\ Usable(den) /\ den[1] # 0 THEN toFixed(Divide(num, den), 2) ELSE NA

\* C19 (as claimed): pe is "N/A" exactly when price is absent or not finite or
\* eps is absent, not finite or zero, else price / eps to two decimals; pb
\* likewise with bookValue.
C19_RatioRule ==
    Computed =>
      LET data == procs["m1"].seen[1]
          row == table.rows[1]
      IN  /\ row.pe = ClaimedRatio(data.price, data.eps)
          /\ row.pb = ClaimedRatio(data.price, data.bookValue)

\* C20 (as claimed): when dividendPerShare is a finite number, zero included,
\* intrinsicDividend is dividendPerShare / 0.08 to two decimals; it is "N/A"
\* only when dividendPerShare is absent.
C20_IntrinsicRule ==
    Computed =>
      LET data == procs["m1"].seen[1]
          row == table.rows[1]
      IN  /\ Usable(data.dividendPerShare) =>
                row.intrinsicDividend = toFixed(Divide(data.dividendPerShare, discountRate), 2)
          /\ row.intrinsicDividend = NA => ~IsNumber(data.dividendPerShare)

\* C21 (as claimed): evEbitda is the supplied evToEbitda when that is present
\* and finite; otherwise enterpriseValue / ebitda when both are present;
\* otherwise "N/A".
C21_EvEbitdaFallback ==
    Computed =>
      LET data == procs["m1"].seen[1]
          row == table.rows[1]
      IN  row.evEbitda =
            IF Usable(data.evToEbitda) THEN toFixed(data.evToEbitda, 2)
            ELSE IF IsNumber(data.enterpriseValue) /\ IsNumber(data.ebitda)
                 THEN ClaimedRatio(data.enterpriseValue, data.ebitda)
                 ELSE NA

(***************************************************************************)
(* Properties of the manual scan, under SpecResponses.                     *)
(***************************************************************************)
\* C22 (as claimed): after a manual scan the table has a row for every ticker
\* entered, and the row of a ticker no provider gave data for shows "N/A" in
\* every metric.
C22_RowPerTicker ==
    LET st == procs["m1"]
    IN  st.pc = "done" =>
          \A i \in 1..Len(st.tickers) :
            \E k \in 1..Len(table.rows) :
              /\ table.rows[k].ticker = TickerAt(st, i)
              /\ IsNull(st.seen[i]) =>
                    \A f \in DOMAIN table.rows[k] \ {"ticker"} : table.rows[k][f] = NA

(***************************************************************************)
(* Properties of the displayed table.                                      *)
(***************************************************************************)
\* C23 (as claimed): the rows renderResults has displayed are ascending by
\* P/E, a row whose P/E is "N/A" after every row with a numeric P/E.
C23_TableByPE ==
    \A i, j \in 1..Len(table.rows) :
      i < j =>
        /\ table.rows[j].pe # NA => table.rows[i].pe # NA
        /\ (table.rows[i].pe # NA /\ table.rows[j].pe # NA) =>
              table.rows[i].pe[2] <= table.rows[j].pe[2]

(***************************************************************************)
(* Further properties of the page under clicks, under Spec.                *)
(***************************************************************************)
\* C24: API_KEYS.alpha is never empty and API_KEYS.fmp always is; no lookup
\* sends a request to Financial Modeling Prep and every lookup sends its first
\* request to Alpha Vantage.
C24_KeyConfiguration ==
    /\ API_KEYS.alpha # ""
    /\ API_KEYS.fmp = ""
    /\ \A p \in PageProcs :
         \A look \in AllLooks(p) :
           /\ IssuedTo(look, "fmp") = {}
           /\ ~look.fmpCalled
           /\ look.issued # <<>>
           /\ look.issued[1] = Request("alpha", "OVERVIEW", look.symbol, look.keys0.alpha)
           /\ look.keys0.alpha # ""

\* C24 witness: a click has put the key typed by the user in API_KEYS.alpha
\* and a lookup has run with it
C24_Witness ==
    /\ API_KEYS = [alpha |-> "k2", fmp |-> ""]
    /\ \E p \in PageProcs :
         /\ procs[p].last.look # NoLook
         /\ procs[p].last.look.keys0.alpha = "k2"
         /\ Len(procs[p].last.look.issued) = 2

\* a full market scan is in progress
FullInProgress == procs["full"].pc \in WaitPcs
\* this step starts a full market scan
FullStarts == procs["full"].pc # "list" /\ procs'["full"].pc = "list"

\* C25: the full-scan button is disabled exactly while a full market scan is
\* in progress, and a full market scan starts only when the button is enabled
\* and no full market scan is in progress.
C25_FullScanExclusive ==
    /\ [](FullInProgress <=> fullScanBtn.disabled)
    /\ [][FullStarts => (~fullScanBtn.disabled /\ ~FullInProgress)]_vars

\* C25 witness: a full market scan waits for a lookup with the button disabled
\* while a manual scan is in progress too
C25_Witness ==
    /\ procs["full"].pc = "alphaQuote"
    /\ procs["full"].idx = 1
    /\ fullScanBtn = [disabled |-> TRUE, textContent |-> "Scanning..."]
    /\ procs["m1"].pc \in WaitPcs

(***************************************************************************)
(* Termination of the full market scan, under SpecLive.                    *)
(***************************************************************************)
\* the full market scan has ended: every symbol of its universe was looked up
\* once, in order, and the button is enabled again under its first label
FullFinished ==
    /\ procs["full"].pc = "done"
    /\ procs["full"].looked = procs["full"].tickers
    /\ Len(procs["full"].looks) = Len(procs["full"].tickers)
    /\ fullScanBtn = [disabled |-> FALSE, textContent |-> "Full Market Scan"]

\* C26: a full market scan that has started eventually ends, having looked up
\* each symbol of its universe once, with the button enabled again under its
\* original label.
C26_ScanTerminates == FullInProgress ~> FullFinished

\* C26 witness: a full market scan over two symbols has ended, one lookup
\* having failed, and the button is enabled again
C26_Witness ==
    /\ FullFinished
    /\ Len(procs["full"].tickers) = 2
    /\ \E i \in 1..2 : AlphaFailed(procs["full"].looks[i])

(***************************************************************************)
(* The results table under interleaved scans, under Spec.                  *)
(***************************************************************************)
\* the ranked set the full market scan has rendered last, none so far: empty
CurrentRanked == IF emitted = <<>> THEN <<>> ELSE emitted[Len(emitted)]

\* C27 (as claimed): while a full market scan is looking up its symbols the
\* table shows that scan's current ranked set, whatever clicks on the scan
\* button come in between.
C27_TableOfFullScan ==
    procs["full"].pc \in WaitPcs \ {"list"} => table.rows = CurrentRanked

====
